---- MODULE Spec2Model ----
(***************************************************************************)
(* SpaceSparseVectorInter (similarity_search/src/space/                    *)
(* space_sparse_vector_inter.cc): the adapter between packed sparse        *)
(* vectors and the dense / overlap views used by the search methods.       *)
(*                                                                         *)
(* The module models three member functions as step machines that start    *)
(* from an idle caller:                                                    *)
(*   CreateObjFromVect       (pack a vector, wrap the buffer in an Object) *)
(*   CreateDenseVectFromObj  (hashing projection into a dense array)       *)
(*   ComputeOverlapInfo      (merge scan + normalisation)                  *)
(* and ComputeOverlap (2-way) as an operator.                              *)
(*                                                                         *)
(* Weights are IEEE-754 single precision numbers, modelled bit-exactly     *)
(* (round to nearest, ties to even) for the finite, normal range.          *)
(***************************************************************************)
EXTENDS Integers, Sequences, FiniteSets, TLC

(***************************************************************************)
(* Bounds of the model.                                                    *)
(***************************************************************************)
MaxLen == 2      \* longest element list drawn as an input
MaxId  == 3      \* ids are drawn from 1..MaxId
MaxDim == 2      \* target dimensions nElem are drawn from 1..MaxDim

\* the weights drawn for input elements (exact in single precision)
Weights == {0, 2, 3}

(***************************************************************************)
(* Single precision arithmetic.  A finite float is [m, e] and stands for   *)
(* m * 2^e, with m = 0 /\ e = 0 or 2^(MantBits-1) <= |m| < 2^MantBits.     *)
(* Infinity and NaN carry the exponent SpecialExp (FLT_MAX_EXP, which no   *)
(* finite value reaches).  Exponent overflow, underflow and subnormals do  *)
(* not occur for the values of the model and are not represented.          *)
(***************************************************************************)
MantBits   == 24
SpecialExp == 128

FZero == [m |-> 0, e |-> 0]
FInf  == [m |-> 1, e |-> SpecialExp]
FNaN  == [m |-> 0, e |-> SpecialExp]

IsFinite(x) == x.e # SpecialExp
Abs(n)      == IF n < 0 THEN -n ELSE n
Sgn(n)      == IF n < 0 THEN -1 ELSE 1

RECURSIVE BitLen(_)
BitLen(n) == IF n = 0 THEN 0 ELSE 1 + BitLen(n \div 2)

\* n * 2^e rounded to MantBits bits, to nearest, ties to even (n is any
\* integer; a set lowest bit of n may stand for discarded lower bits).
RoundToFloat(n, e) ==
  IF n = 0 THEN FZero
  ELSE LET a  == Abs(n)
           bl == BitLen(a)
       IN IF bl <= MantBits
          THEN [m |-> Sgn(n) * a * 2^(MantBits - bl), e |-> e - (MantBits - bl)]
          ELSE LET k    == bl - MantBits
                   q    == a \div 2^k
                   r    == a % 2^k
                   half == 2^(k - 1)
                   up   == r > half \/ (r = half /\ q % 2 = 1)
                   q1   == IF up THEN q + 1 ELSE q
               IN IF q1 = 2^MantBits
                  THEN [m |-> Sgn(n) * 2^(MantBits - 1), e |-> e + k + 1]
                  ELSE [m |-> Sgn(n) * q1, e |-> e + k]

\* static_cast<dist_t>(n) of a small integer
FromInt(n) == RoundToFloat(n, 0)

\* x + y.  The smaller operand is aligned with three extra bits (guard,
\* round, sticky), which is enough for a correctly rounded sum.
FAdd(x, y) ==
  IF ~IsFinite(x) \/ ~IsFinite(y)
  THEN IF x = FNaN \/ y = FNaN \/ (~IsFinite(x) /\ ~IsFinite(y) /\ x # y)
       THEN FNaN
       ELSE IF IsFinite(x) THEN y ELSE x
  ELSE IF x.m = 0 THEN y
  ELSE IF y.m = 0 THEN x
  ELSE LET big   == IF x.e >= y.e THEN x ELSE y
           small == IF x.e >= y.e THEN y ELSE x
           d     == big.e - small.e
           sm    == Abs(small.m) * 8
           q     == IF d > MantBits + 3 THEN 0 ELSE sm \div 2^d
           st    == IF d > MantBits + 3 \/ sm % 2^d # 0 THEN 1 ELSE 0
           sh    == IF q % 2 = 1 THEN q ELSE q + st
       IN RoundToFloat(big.m * 8 + Sgn(small.m) * sh, big.e - 3)

\* x * y.  The 2*MantBits-bit product of the mantissas is built from
\* half-width limbs so that no intermediate value exceeds 31 bits.
FMul(x, y) ==
  IF ~IsFinite(x) \/ ~IsFinite(y)
  THEN IF x = FNaN \/ y = FNaN \/ x = FZero \/ y = FZero
       THEN FNaN
       ELSE [m |-> Sgn(x.m) * Sgn(y.m), e |-> SpecialExp]
  ELSE IF x.m = 0 \/ y.m = 0 THEN FZero
  ELSE LET hb   == MantBits \div 2
           H    == 2^hb
           W    == 2^MantBits
           h1   == Abs(x.m) \div H
           l1   == Abs(x.m) % H
           h2   == Abs(y.m) \div H
           l2   == Abs(y.m) % H
           mid  == h1 * l2 + l1 * h2
           low  == l1 * l2 + (mid % H) * H
           lo   == low % W
           hi   == h1 * h2 + mid \div H + low \div W
           s    == Sgn(x.m) * Sgn(y.m)
           \* product = hi * W + lo, with 2^(MantBits-2) <= hi < W
           top  == hi >= W \div 2
           q    == IF top THEN hi ELSE 2 * hi + lo \div (W \div 2)
           r    == IF top THEN lo ELSE lo % (W \div 2)
           half == IF top THEN W \div 2 ELSE W \div 4
           ex   == x.e + y.e + (IF top THEN MantBits ELSE MantBits - 1)
           up   == r > half \/ (r = half /\ q % 2 = 1)
           q1   == IF up THEN q + 1 ELSE q
       IN IF q1 = W THEN [m |-> s * (W \div 2), e |-> ex + 1]
                    ELSE [m |-> s * q1, e |-> ex]

\* digit-by-digit integer square root: <<root, remainder>> after consuming
\* the bit pairs of n from pair number i down to 0, then z zero pairs
RECURSIVE SqrtDigits(_, _, _, _, _)
SqrtDigits(n, i, z, root, rem) ==
  IF i < 0 /\ z = 0 THEN <<root, rem>>
  ELSE LET pair  == IF i >= 0 THEN (n \div 4^i) % 4 ELSE 0
           r     == rem * 4 + pair
           trial == root * 4 + 1
           i1    == IF i >= 0 THEN i - 1 ELSE i
           z1    == IF i >= 0 THEN z ELSE z - 1
       IN IF r >= trial
          THEN SqrtDigits(n, i1, z1, root * 2 + 1, r - trial)
          ELSE SqrtDigits(n, i1, z1, root * 2, r)

\* sqrt(x), correctly rounded (the result of std::sqrt on a float, and of
\* the double sqrt narrowed to float)
FSqrt(x) ==
  IF x = FNaN \/ x.m < 0 THEN FNaN
  ELSE IF x = FInf \/ x.m = 0 THEN x
  ELSE LET odd == x.e % 2 = 1
           n   == IF odd THEN 2 * x.m ELSE x.m
           e2  == IF odd THEN x.e - 1 ELSE x.e
           z   == MantBits \div 2 + 1
           rr  == SqrtDigits(n, MantBits \div 2, z, 0, 0)
           st  == IF rr[2] # 0 THEN 1 ELSE 0
       IN RoundToFloat(2 * rr[1] + st, e2 \div 2 - z - 1)

\* long division: <<quotient, remainder>> of (num * 2^k) by d
RECURSIVE DivBits(_, _, _, _)
DivBits(q, r, d, k) ==
  IF k = 0 THEN <<q, r>>
  ELSE IF 2 * r >= d THEN DivBits(2 * q + 1, 2 * r - d, d, k - 1)
                     ELSE DivBits(2 * q, 2 * r, d, k - 1)

\* 1.0 / x narrowed to float.  The division is done in double precision
\* and narrowed; with 53 >= 2*24 + 2 bits the second rounding is innocuous,
\* so the result is the correctly rounded single precision quotient.
FRecip(x) ==
  IF x = FNaN THEN FNaN
  ELSE IF ~IsFinite(x) THEN FZero
  ELSE IF x.m = 0 THEN FInf
  ELSE LET a  == Abs(x.m)
           W  == 2^MantBits
           k  == MantBits + 1
           qr == DivBits(W \div a, W % a, a, k)
           st == IF qr[2] # 0 THEN 1 ELSE 0
       IN RoundToFloat(Sgn(x.m) * (2 * qr[1] + st), -(MantBits + k) - 1 - x.e)

\* x > 0
FPositive(x) == x # FNaN /\ x.m > 0

(***************************************************************************)
(* Sparse vectors, their packed form and the Objects that hold it.         *)
(***************************************************************************)
\* SparseVectElem<dist_t>
Elem(i, w) == [id_ |-> i, val_ |-> FromInt(w)]

RECURSIVE SortedSeq(_)
SortedSeq(S) ==
  IF S = {} THEN <<>>
  ELSE LET lo == CHOOSE x \in S : \A y \in S : x <= y
       IN <<lo>> \o SortedSeq(S \ {lo})

\* the element lists drawn as inputs: ids ascending and unique
ElemLists ==
  UNION { { [k \in 1..Len(ids) |-> Elem(ids[k], w[k])] :
              w \in [1..Len(ids) -> Weights] } :
          ids \in { SortedSeq(S) :
                      S \in {T \in SUBSET (1..MaxId) : Cardinality(T) <= MaxLen} } }

RECURSIVE Flatten(_)
Flatten(v) ==
  IF v = <<>> THEN <<>> ELSE <<Head(v).id_, Head(v).val_>> \o Flatten(Tail(v))

\* the payload: the element count, then (id, value) per element in order
PackSparseElements(v) == <<Len(v)>> \o Flatten(v)

UnpackSparseElements(data, datalength) ==
  [k \in 1..data[1] |-> [id_ |-> data[2 * k], val_ |-> data[2 * k + 1]]]

\* Object(id, label, datalength, data)
Object(id, label, datalength, data) ==
  [id |-> id, label |-> label, datalength |-> datalength, data |-> data]

\* the Objects handed to the read-side operations
Objects ==
  { Object(0, 0, Len(PackSparseElements(v)), PackSparseElements(v)) : v \in ElemLists }

\* what an out-of-range read of a vector<SparseVectElem> can yield
GarbageElems == { Elem(i, w) : i \in 0..(MaxId + 1), w \in Weights }

(***************************************************************************)
(* ComputeOverlap (2-way)                                                  *)
(***************************************************************************)
RECURSIVE IntersectSizeScalarFast(_, _)
IntersectSizeScalarFast(ids1, ids2) ==
  IF ids1 = <<>> \/ ids2 = <<>> THEN 0
  ELSE IF Head(ids1) < Head(ids2) THEN IntersectSizeScalarFast(Tail(ids1), ids2)
  ELSE IF Head(ids1) > Head(ids2) THEN IntersectSizeScalarFast(ids1, Tail(ids2))
  ELSE 1 + IntersectSizeScalarFast(Tail(ids1), Tail(ids2))

ComputeOverlap(obj1, obj2) ==
  LET elems1 == UnpackSparseElements(obj1.data, obj1.datalength)
      elems2 == UnpackSparseElements(obj2.data, obj2.datalength)
      ids1   == [k \in 1..Len(elems1) |-> elems1[k].id_]
      ids2   == [k \in 1..Len(elems2) |-> elems2[k].id_]
  IN IntersectSizeScalarFast(ids1, ids2)

(***************************************************************************)
(* ComputeOverlapInfo: the pieces of the function body                     *)
(***************************************************************************)
\* OverlapInfo res;
OverlapInfoInit ==
  [overlap_qty_            |-> 0,
   overlap_dotprod_norm_   |-> FZero,
   overlap_sum_left_norm_  |-> FZero,
   overlap_sum_right_norm_ |-> FZero,
   diff_sum_left_norm_     |-> FZero,
   diff_sum_right_norm_    |-> FZero]

\* norm += elems[k].val_ * elems[k].val_ for k = from .. size-1, then sqrt
RECURSIVE SumSquares(_, _, _)
SumSquares(elems, from, acc) ==
  IF from > Len(elems) THEN acc
  ELSE SumSquares(elems, from + 1, FAdd(acc, FMul(elems[from].val_, elems[from].val_)))

Norm(elems) == FSqrt(SumSquares(elems, 1, FZero))

\* while (A < elemsA.size() && B < elemsA.size())
MergeCond(a, b, eA, eB) == a < Len(eA) /\ b < Len(eA)

\* a left accumulator that is assigned instead of accumulated
OnLeftOnlyAssign(r, ea) ==
  [r EXCEPT !.diff_sum_left_norm_ = ea.val_]

\* idA < idB
OnLeftOnly(r, ea) ==
  [r EXCEPT !.diff_sum_left_norm_ = FAdd(@, ea.val_)]

\* a right accumulator that accumulates like the left one
OnRightOnlyAccumulate(r, eb) ==
  [r EXCEPT !.diff_sum_right_norm_ = FAdd(@, eb.val_)]

\* idA > idB
OnRightOnly(r, eb) ==
  [r EXCEPT !.diff_sum_right_norm_ = eb.val_]

\* idA == idB
OnMatch(r, ea, eb) ==
  [r EXCEPT !.overlap_dotprod_norm_   = FAdd(@, FMul(ea.val_, eb.val_)),
            !.overlap_sum_left_norm_  = FAdd(@, ea.val_),
            !.overlap_sum_right_norm_ = eb.val_,
            !.overlap_qty_            = @ + 1]

\* a guard that lets a zero norm through: if (norm >= 0)
NormGuardNonNegative(norm) == norm # FNaN /\ norm.m >= 0

\* if (norm > 0)
NormGuard(norm) == FPositive(norm)

ScaleLeft(r, inv) ==
  [r EXCEPT !.overlap_sum_left_norm_ = FMul(@, inv),
            !.diff_sum_left_norm_    = FMul(@, inv),
            !.overlap_dotprod_norm_  = FMul(@, inv)]

\* a right normalisation that forgets the dot product
ScaleRightNoDot(r, inv) ==
  [r EXCEPT !.overlap_sum_right_norm_ = FMul(@, inv),
            !.diff_sum_right_norm_    = FMul(@, inv)]

ScaleRight(r, inv) ==
  [r EXCEPT !.overlap_sum_right_norm_ = FMul(@, inv),
            !.diff_sum_right_norm_    = FMul(@, inv),
            !.overlap_dotprod_norm_   = FMul(@, inv)]

(***************************************************************************)
(* CreateObjFromVect: the buffer PackSparseElements allocates              *)
(***************************************************************************)
HeapInit == [state |-> "unallocated", frees |-> 0, data |-> <<>>]

\* pBuff = new char[dataLen] inside PackSparseElements
Allocate(h, v) == [h EXCEPT !.state = "live", !.data = PackSparseElements(v)]

\* a catch block that does not release the buffer
DeleteArraySkipped(h, p) == h

\* delete [] pData
DeleteArray(h, p) ==
  IF p = "NULL" THEN h ELSE [h EXCEPT !.state = "freed", !.frees = @ + 1]

(***************************************************************************)
(* CreateDenseVectFromObj                                                  *)
(***************************************************************************)
\* std::hash<size_t>: the value itself (libstdc++, libc++)
indexHash(id) == id

\* size_t idx = indexHash(e.id_) % nElem
SlotOf(e, n) == indexHash(e.id_) % n

\* fill(pVect, pVect + nElem, 0)
Fill(mem, n) == [s \in DOMAIN mem |-> IF s < n THEN FZero ELSE mem[s]]

\* a projection that overwrites the slot: pVect[idx] = e.val_
AddToSlotOverwrite(mem, idx, e) == [mem EXCEPT ![idx] = e.val_]

\* pVect[idx] += e.val_
AddToSlot(mem, idx, e) == [mem EXCEPT ![idx] = FAdd(@, e.val_)]

\* memory at pVect: the nElem slots of the array and what lies behind them
MemSlots == 0..MaxDim
MemContents == [MemSlots -> {FZero, FromInt(3)}]

VARIABLES
  pc,                   \* where the caller / the running member function is
  InpVect, pData, dataLen, heap, retObj,          \* CreateObjFromVect
  pVect, pVect0, nElem, target, pos,              \* CreateDenseVectFromObj
  objA, objB, elemsA, elemsB, res,                \* ComputeOverlapInfo
  norm_left, norm_right, A, B,
  handled               \* the loop iterations executed so far (history)

encVars  == <<InpVect, pData, dataLen, heap, retObj>>
projVars == <<pVect, pVect0, nElem, target, pos>>
ovlVars  == <<objA, objB, elemsA, elemsB, res, norm_left, norm_right, A, B, handled>>
vars     == <<pc, encVars, projVars, ovlVars>>

NoObject == Object(0, 0, 0, <<0>>)
\* no Object has been returned
NoReturn == Object(0, 0, 0, "NULL")
NoMem    == [s \in MemSlots |-> FZero]

EncIdle  == /\ InpVect = <<>> /\ pData = "NULL" /\ dataLen = 0
            /\ heap = HeapInit /\ retObj = NoReturn
ProjIdle == /\ pVect = NoMem /\ pVect0 = NoMem /\ nElem = 0
            /\ target = <<>> /\ pos = 0
OvlIdle  == /\ objA = NoObject /\ objB = NoObject
            /\ elemsA = <<>> /\ elemsB = <<>> /\ res = OverlapInfoInit
            /\ norm_left = FZero /\ norm_right = FZero /\ A = 0 /\ B = 0
            /\ handled = <<>>

\* the locals of a finished call go out of scope
EncReset  == /\ InpVect' = <<>> /\ pData' = "NULL" /\ dataLen' = 0
             /\ heap' = HeapInit /\ retObj' = NoReturn
ProjReset == /\ pVect' = NoMem /\ pVect0' = NoMem /\ nElem' = 0
             /\ target' = <<>> /\ pos' = 0
OvlReset  == /\ objA' = NoObject /\ objB' = NoObject
             /\ elemsA' = <<>> /\ elemsB' = <<>> /\ res' = OverlapInfoInit
             /\ norm_left' = FZero /\ norm_right' = FZero /\ A' = 0 /\ B' = 0
             /\ handled' = <<>>

Init == pc = "idle" /\ EncIdle /\ ProjIdle /\ OvlIdle

(***************************************************************************)
(* CreateObjFromVect                                                       *)
(***************************************************************************)
CreateObjFromVect_Call ==
  /\ pc = "idle"
  /\ \E v \in ElemLists : InpVect' = v
  /\ pData' = "NULL" /\ dataLen' = 0
  /\ pc' = "pack"
  /\ UNCHANGED <<heap, retObj, projVars, ovlVars>>

Pack_Ok ==
  /\ pc = "pack"
  /\ heap' = Allocate(heap, InpVect)
  /\ pData' = "buf" /\ dataLen' = Len(PackSparseElements(InpVect))
  /\ pc' = "newObject"
  /\ UNCHANGED <<InpVect, retObj, projVars, ovlVars>>

Pack_ThrowBeforeAlloc ==
  /\ pc = "pack"
  /\ pc' = "catch"
  /\ UNCHANGED <<encVars, projVars, ovlVars>>

Pack_ThrowAfterAlloc ==
  /\ pc = "pack"
  /\ heap' = Allocate(heap, InpVect)
  /\ pData' = "buf"
  /\ pc' = "catch"
  /\ UNCHANGED <<InpVect, dataLen, retObj, projVars, ovlVars>>

NewObject_Ok ==
  /\ pc = "newObject"
  /\ retObj' = Object(0, 0, dataLen, pData)
  /\ pc' = "returned"
  /\ UNCHANGED <<InpVect, pData, dataLen, heap, projVars, ovlVars>>

NewObject_Throw ==
  /\ pc = "newObject"
  /\ pc' = "catch"
  /\ UNCHANGED <<encVars, projVars, ovlVars>>

Catch ==
  /\ pc = "catch"
  /\ heap' = DeleteArray(heap, pData)
  /\ pc' = "propagated"
  /\ UNCHANGED <<InpVect, pData, dataLen, retObj, projVars, ovlVars>>

CreateObjFromVect_Done ==
  /\ pc \in {"returned", "propagated"}
  /\ pc' = "idle"
  /\ EncReset
  /\ UNCHANGED <<projVars, ovlVars>>

(***************************************************************************)
(* CreateDenseVectFromObj                                                  *)
(***************************************************************************)
CreateDenseVectFromObj_Call ==
  /\ pc = "idle"
  /\ \E obj \in Objects, n \in 1..MaxDim, mem \in MemContents :
       /\ nElem' = n
       /\ pVect0' = mem
       /\ pVect' = Fill(mem, n)
       /\ target' = UnpackSparseElements(obj.data, obj.datalength)
  /\ pos' = 0
  /\ pc' = "project"
  /\ UNCHANGED <<encVars, ovlVars>>

ProjectElem ==
  /\ pc = "project" /\ pos < Len(target)
  /\ pVect' = AddToSlot(pVect, SlotOf(target[pos + 1], nElem), target[pos + 1])
  /\ pos' = pos + 1
  /\ UNCHANGED <<pc, pVect0, nElem, target, encVars, ovlVars>>

ProjectEnd ==
  /\ pc = "project" /\ pos >= Len(target)
  /\ pc' = "projected"
  /\ UNCHANGED <<projVars, encVars, ovlVars>>

CreateDenseVectFromObj_Done ==
  /\ pc = "projected"
  /\ pc' = "idle"
  /\ ProjReset
  /\ UNCHANGED <<encVars, ovlVars>>

(***************************************************************************)
(* ComputeOverlapInfo                                                      *)
(***************************************************************************)
ComputeOverlapInfo_Call ==
  /\ pc = "idle"
  /\ \E oa \in Objects, ob \in Objects :
       /\ objA' = oa /\ objB' = ob
       /\ elemsA' = UnpackSparseElements(oa.data, oa.datalength)
       /\ elemsB' = UnpackSparseElements(ob.data, ob.datalength)
  /\ res' = OverlapInfoInit
  /\ norm_left' = Norm(elemsA')
  /\ norm_right' = Norm(elemsB')
  /\ A' = 0 /\ B' = 0
  /\ handled' = <<>>
  /\ pc' = "merge"
  /\ UNCHANGED <<encVars, projVars>>

\* one iteration of the merge loop, eB being what elemsB[B] reads
MergeBody(eB) ==
  LET eA == elemsA[A + 1]
  IN /\ IF eA.id_ < eB.id_
        THEN /\ res' = OnLeftOnly(res, eA)
             /\ A' = A + 1 /\ B' = B
             /\ handled' = Append(handled, [kind |-> "left", a |-> A, b |-> B])
        ELSE IF eA.id_ > eB.id_
        THEN /\ res' = OnRightOnly(res, eB)
             /\ A' = A /\ B' = B + 1
             /\ handled' = Append(handled, [kind |-> "right", a |-> A, b |-> B])
        ELSE /\ res' = OnMatch(res, eA, eB)
             /\ A' = A + 1 /\ B' = B + 1
             /\ handled' = Append(handled, [kind |-> "match", a |-> A, b |-> B])
     /\ UNCHANGED <<pc, objA, objB, elemsA, elemsB, norm_left, norm_right,
                    encVars, projVars>>

MergeStep ==
  /\ pc = "merge" /\ MergeCond(A, B, elemsA, elemsB)
  /\ B < Len(elemsB)
  /\ MergeBody(elemsB[B + 1])

\* elemsB[B] with B >= elemsB.size(): undefined behaviour; the read yields
\* whatever lies behind the vector's storage ...
MergeStepOutOfRange ==
  /\ pc = "merge" /\ MergeCond(A, B, elemsA, elemsB)
  /\ B >= Len(elemsB)
  /\ \E g \in GarbageElems : MergeBody(g)

\* ... or the access faults
MergeFault ==
  /\ pc = "merge" /\ MergeCond(A, B, elemsA, elemsB)
  /\ B >= Len(elemsB)
  /\ pc' = "fault"
  /\ handled' = Append(handled, [kind |-> "fault", a |-> A, b |-> B])
  /\ UNCHANGED <<objA, objB, elemsA, elemsB, res, norm_left, norm_right, A, B,
                 encVars, projVars>>

MergeEnd ==
  /\ pc = "merge" /\ ~MergeCond(A, B, elemsA, elemsB)
  /\ pc' = "drainA"
  /\ UNCHANGED <<ovlVars, encVars, projVars>>

DrainA ==
  /\ pc = "drainA" /\ A < Len(elemsA)
  /\ res' = OnLeftOnly(res, elemsA[A + 1])
  /\ A' = A + 1
  /\ handled' = Append(handled, [kind |-> "drainLeft", a |-> A, b |-> B])
  /\ UNCHANGED <<pc, objA, objB, elemsA, elemsB, norm_left, norm_right, B,
                 encVars, projVars>>

DrainAEnd ==
  /\ pc = "drainA" /\ ~(A < Len(elemsA))
  /\ pc' = "drainB"
  /\ UNCHANGED <<ovlVars, encVars, projVars>>

DrainB ==
  /\ pc = "drainB" /\ B < Len(elemsB)
  /\ res' = OnRightOnly(res, elemsB[B + 1])
  /\ B' = B + 1
  /\ handled' = Append(handled, [kind |-> "drainRight", a |-> A, b |-> B])
  /\ UNCHANGED <<pc, objA, objB, elemsA, elemsB, norm_left, norm_right, A,
                 encVars, projVars>>

DrainBEnd ==
  /\ pc = "drainB" /\ ~(B < Len(elemsB))
  /\ pc' = "normLeft"
  /\ UNCHANGED <<ovlVars, encVars, projVars>>

NormalizeLeft ==
  /\ pc = "normLeft"
  /\ res' = IF NormGuard(norm_left) THEN ScaleLeft(res, FRecip(norm_left)) ELSE res
  /\ pc' = "normRight"
  /\ UNCHANGED <<objA, objB, elemsA, elemsB, norm_left, norm_right, A, B, handled,
                 encVars, projVars>>

NormalizeRight ==
  /\ pc = "normRight"
  /\ res' = IF NormGuard(norm_right) THEN ScaleRight(res, FRecip(norm_right)) ELSE res
  /\ pc' = "done"
  /\ UNCHANGED <<objA, objB, elemsA, elemsB, norm_left, norm_right, A, B, handled,
                 encVars, projVars>>

ComputeOverlapInfo_Done ==
  /\ pc = "done"
  /\ pc' = "idle"
  /\ OvlReset
  /\ UNCHANGED <<encVars, projVars>>

Next ==
  \/ CreateObjFromVect_Call \/ Pack_Ok \/ Pack_ThrowBeforeAlloc
  \/ Pack_ThrowAfterAlloc \/ NewObject_Ok \/ NewObject_Throw \/ Catch
  \/ CreateObjFromVect_Done
  \/ CreateDenseVectFromObj_Call \/ ProjectElem \/ ProjectEnd
  \/ CreateDenseVectFromObj_Done
  \/ ComputeOverlapInfo_Call \/ MergeStep \/ MergeStepOutOfRange \/ MergeFault
  \/ MergeEnd \/ DrainA \/ DrainAEnd \/ DrainB \/ DrainBEnd
  \/ NormalizeLeft \/ NormalizeRight \/ ComputeOverlapInfo_Done

Spec == Init /\ [][Next]_vars

(***************************************************************************)
(* Vocabulary of the properties                                            *)
(***************************************************************************)
FOne == FromInt(1)

\* the integer a float holding a small non-negative integer stands for
IntOf(x) == IF x.e >= 0 THEN x.m * 2^x.e ELSE x.m \div 2^(-x.e)

IdsOf(elems) == { elems[k].id_ : k \in 1..Len(elems) }

RECURSIVE SumOver(_, _)
SumOver(f, S) ==
  IF S = {} THEN 0
  ELSE LET k == CHOOSE x \in S : TRUE IN f[k] + SumOver(f, S \ {k})

\* the sum of the weights of the elements at the (1-based) positions in S
WeightSum(elems, S) == SumOver([k \in 1..Len(elems) |-> IntOf(elems[k].val_)], S)
AllWeights(elems)   == WeightSum(elems, 1..Len(elems))
SquaresSum(elems)   ==
  SumOver([k \in 1..Len(elems) |-> IntOf(elems[k].val_) * IntOf(elems[k].val_)],
          1..Len(elems))

Events(kinds) == { k \in 1..Len(handled) : handled[k].kind \in kinds }
LastOf(S)     == CHOOSE k \in S : \A j \in S : j <= k

\* every merge iteration read elemsB inside the vector
InRange == \A k \in Events({"left", "right", "match", "fault"}) :
             handled[k].b < Len(elemsB)

\* both loops are over and nothing has been normalised yet
PreNorm == pc = "normLeft"

(***************************************************************************)
(* C1: for sorted unique-id inputs of any lengths, ComputeOverlapInfo      *)
(* returns overlapCount = the number of ids occurring in both lists = the  *)
(* pairwise intersection count (stated for the runs whose reads are all in *)
(* range).                                                                 *)
(***************************************************************************)
C1_OverlapCountIsIntersection ==
  (PreNorm /\ InRange) =>
     /\ res.overlap_qty_ = Cardinality(IdsOf(elemsA) \cap IdsOf(elemsB))
     /\ res.overlap_qty_ = ComputeOverlap(objA, objB)

(***************************************************************************)
(* C2: for non-empty inputs without a common id, overlapCount = 0, the     *)
(* diff sums hold the whole weight of their side before normalisation, and *)
(* the three overlap accumulators stay 0.                                  *)
(***************************************************************************)
C2_DisjointAllWeightInDiffSums ==
  (/\ PreNorm /\ InRange
   /\ elemsA # <<>> /\ elemsB # <<>>
   /\ IdsOf(elemsA) \cap IdsOf(elemsB) = {}) =>
     /\ res.overlap_qty_ = 0
     /\ res.diff_sum_left_norm_ = FromInt(AllWeights(elemsA))
     /\ res.diff_sum_right_norm_ = FromInt(AllWeights(elemsB))
     /\ res.overlap_dotprod_norm_ = FZero
     /\ res.overlap_sum_left_norm_ = FZero
     /\ res.overlap_sum_right_norm_ = FZero

(***************************************************************************)
(* C3: when exactly one input is empty, no element of the empty list is    *)
(* ever read, overlapCount = 0, the non-empty side's diff sum is the sum   *)
(* of its weights and the empty side's diff sum is 0.                      *)
(***************************************************************************)
C3_OneEmptyInput ==
  /\ (elemsA # <<>> /\ elemsB = <<>>) =>
        /\ Events({"left", "right", "match", "fault", "drainRight"}) = {}
        /\ PreNorm => /\ res.overlap_qty_ = 0
                      /\ res.diff_sum_left_norm_ = FromInt(AllWeights(elemsA))
                      /\ res.diff_sum_right_norm_ = FZero
  /\ (elemsA = <<>> /\ elemsB # <<>>) =>
        /\ Events({"left", "right", "match", "fault", "drainLeft"}) = {}
        /\ PreNorm => /\ res.overlap_qty_ = 0
                      /\ res.diff_sum_right_norm_ = FromInt(AllWeights(elemsB))
                      /\ res.diff_sum_left_norm_ = FZero

(***************************************************************************)
(* C4: ComputeOverlapInfo(v, v) for a non-empty v with a non-zero weight.  *)
(***************************************************************************)
Identical ==
  /\ objA = objB /\ elemsA = elemsB /\ elemsA # <<>>
  /\ \E k \in 1..Len(elemsA) : elemsA[k].val_ # FZero

\* |x - 1| <= 2^-21, i.e. 4 units in the last place above 1 or 8 below
NearOne(x) ==
  \/ x.e = 1 - MantBits /\ x.m >= 2^(MantBits - 1) /\ x.m - 2^(MantBits - 1) <= 4
  \/ x.e = -MantBits /\ x.m > 0 /\ 2^MantBits - x.m <= 8

Owners == IF retObj.data = "buf" THEN 1 ELSE 0

C5_BufferOwnedOrFreedOnce ==
  /\ pc = "returned" =>
        heap.state = "live" /\ heap.frees = 0 /\ Owners = 1
  /\ pc = "propagated" =>
        /\ Owners = 0
        /\ \/ heap.state = "unallocated" /\ heap.frees = 0
           \/ heap.state = "freed" /\ heap.frees = 1

\* the error propagated after the buffer had been allocated
C5_Witness ==
  pc = "propagated" /\ heap.state = "freed" /\ heap.frees = 1 /\ pData = "buf"

(***************************************************************************)
(* C6: after CreateDenseVectFromObj every slot s < nElem holds the sum of  *)
(* the weights of exactly the elements with hash(id) mod nElem = s (0 if   *)
(* none), whatever the array held before, and nothing behind the array was *)
(* written.                                                                *)
(***************************************************************************)
InSlot(s) == { k \in 1..Len(target) : indexHash(target[k].id_) % nElem = s }

C6_SlotsHoldSums ==
  pc = "projected" =>
    \A s \in MemSlots :
      IF s < nElem THEN pVect[s] = FromInt(WeightSum(target, InSlot(s)))
                   ELSE pVect[s] = pVect0[s]

\* two non-zero weights collided in a slot that held something before
C6_Witness ==
  /\ pc = "projected"
  /\ \E s \in MemSlots :
       /\ s < nElem /\ pVect0[s] # FZero
       /\ Cardinality({ k \in InSlot(s) : target[k].val_ # FZero }) >= 2

(***************************************************************************)
(* C7: a zero norm skips its normalisation step: the step leaves every     *)
(* field of the result as it was and the call goes on normally; a positive *)
(* norm scales its own side whatever the other norm is; no field ever      *)
(* becomes infinite or NaN, as a division by zero would make it.           *)
(***************************************************************************)
AllFinite(r) ==
  /\ IsFinite(r.overlap_dotprod_norm_)
  /\ IsFinite(r.overlap_sum_left_norm_) /\ IsFinite(r.overlap_sum_right_norm_)
  /\ IsFinite(r.diff_sum_left_norm_) /\ IsFinite(r.diff_sum_right_norm_)

C7_ZeroNormSkipped ==
  /\ [](AllFinite(res))
  /\ [][/\ (pc = "normLeft" /\ norm_left = FZero) =>
              (res' = res /\ pc' = "normRight")
        /\ (pc = "normRight" /\ norm_right = FZero) =>
              (res' = res /\ pc' = "done")
        /\ (pc = "normLeft" /\ FPositive(norm_left)) =>
              res' = ScaleLeft(res, FRecip(norm_left))
        /\ (pc = "normRight" /\ FPositive(norm_right)) =>
              res' = ScaleRight(res, FRecip(norm_right))]_vars

\* the left step was skipped for a non-empty all-zero vector, the right
\* norm is positive
C7_Witness ==
  /\ pc = "normRight" /\ elemsA # <<>> /\ norm_left = FZero
  /\ FPositive(norm_right)

(***************************************************************************)
(* C8: whenever the merge loop body is about to read elemsA[A] and         *)
(* elemsB[B], both cursors are inside their lists.                         *)
(***************************************************************************)
C8_MergeReadsInRange ==
  (pc = "merge" /\ MergeCond(A, B, elemsA, elemsB)) =>
     (A < Len(elemsA) /\ B < Len(elemsB))

(***************************************************************************)
(* C9: on runs whose reads are all in range, before normalisation          *)
(* diffSumRightNorm is the weight of the last element handled as           *)
(* right-only (0 if none) and overlapSumRightNorm the right weight of the  *)
(* last matched pair (0 if none), while the left accumulators hold the     *)
(* sums over the elements handled as left-only and as matched.             *)
(***************************************************************************)
RightOnly == Events({"right", "drainRight"})
LeftOnly  == Events({"left", "drainLeft"})
Matched   == Events({"match"})

C9_RightSideKeepsLast ==
  (PreNorm /\ InRange) =>
     /\ res.diff_sum_right_norm_ =
          IF RightOnly = {} THEN FZero
          ELSE elemsB[handled[LastOf(RightOnly)].b + 1].val_
     /\ res.overlap_sum_right_norm_ =
          IF Matched = {} THEN FZero
          ELSE elemsB[handled[LastOf(Matched)].b + 1].val_
     /\ res.diff_sum_left_norm_ =
          FromInt(WeightSum(elemsA, { handled[k].a + 1 : k \in LeftOnly }))
     /\ res.overlap_sum_left_norm_ =
          FromInt(WeightSum(elemsA, { handled[k].a + 1 : k \in Matched }))

\* two right-only elements were handled and the field is not their sum
C9_Witness ==
  /\ PreNorm /\ InRange /\ Cardinality(RightOnly) >= 2
  /\ res.diff_sum_right_norm_ #
       FromInt(WeightSum(elemsB, { handled[k].b + 1 : k \in RightOnly }))

(***************************************************************************)
(* C10: when the merge and drain loops have finished, the left cursor is   *)
(* at the end of elemsA and overlapSumLeftNorm + diffSumLeftNorm is the    *)
(* sum of all weights of A, for every input and every early stop.          *)
(***************************************************************************)
C10_LeftFullyAccounted ==
  PreNorm =>
     /\ A = Len(elemsA)
     /\ FAdd(res.overlap_sum_left_norm_, res.diff_sum_left_norm_)
          = FromInt(AllWeights(elemsA))

\* the merge loop stopped early on a longer right list and the left drain
\* loop picked up a non-zero weight
C10_Witness ==
  /\ PreNorm /\ Len(elemsB) > Len(elemsA)
  /\ \E k \in Events({"drainLeft"}) : elemsA[handled[k].a + 1].val_ # FZero
====
